---- MODULE Spec2Model ----
(***************************************************************************)
(* Model of julitan/markdown_converter.                                    *)
(*                                                                         *)
(*   SpecPdf : converter/marker_converter.py, convert_pdf on one document: *)
(*             size check, direct conversion or split / per-part bounded   *)
(*             conversion / merge / cleanup.                               *)
(*   Spec    : main.py, the job-start handlers (upload_convert,            *)
(*             start_convert) and the conversion worker threads they start *)
(*             over the shared _state dictionary, one step per acquisition *)
(*             of _lock.  The outcome of a document's conversion is an     *)
(*             input of the worker: a result with or without success, or   *)
(*             an exception leaving the converter.                         *)
(*   SpecFair   : Spec with every started worker thread scheduled.         *)
(*   SpecStatus : Spec with the status poll, get_status.                   *)
(*   SpecPlan   : _get_split_count and _split_pdf called on their own.     *)
(*   SpecBatch  : the files of one _convert_batch run: enumeration, output *)
(*                directories, and what the converters write and delete.   *)
(*   SpecLock   : main.py with _lock made explicit: every `with _lock:`    *)
(*                block is an acquire step and a body-and-release step,    *)
(*                and a conversion is a call that takes time.              *)
(*                                                                         *)
(* Text is a sequence of one-character strings.  A Markdown text is a      *)
(* sequence of tokens.  A dict is a function whose DOMAIN is its key set.  *)
(* Failures modelled are the ones the code handles by name: a renderer     *)
(* invocation raising or outliving its deadline, and _split_pdf raising    *)
(* before or after it created its scratch directory.  Writes to the        *)
(* output directory are taken to succeed.                                  *)
(***************************************************************************)
EXTENDS Integers, Sequences, FiniteSets, TLC

VARIABLES
    \* ---- main.py ----
    state,          \* the _state dict: running, progress, status, logs, result_path
    req,            \* per request h: the handler serving it (kind), where it stands (pc), its response
    workers,        \* per request h: the worker thread it started, if any
    snapshot,       \* the last response of get_status, and (history) the workers active then
    last_md,        \* history: the path of the Markdown file the last successful conversion wrote
    \* ---- marker_converter.py, one convert_pdf call ----
    pdf_exists,     \* pdf_path.exists()
    file_size,      \* pdf_path.stat().st_size
    total_pages,    \* len(reader.pages)
    save_images,    \* the save_images argument
    pc,             \* where the convert_pdf call stands
    tmp_dir,        \* _convert_pdf_split's local tmp_dir: "None" or the scratch path
    scratch_exists, \* whether the directory made by tempfile.mkdtemp is on disk
    split_status,   \* how _split_pdf ended: "none", "ok", "raised_before_mkdtemp", "raised_after_mkdtemp"
    split_paths,    \* page range [start, end) of each part written by _split_pdf
    i,              \* enumerate index of the part loop
    md_parts,       \* list of the converted parts' Markdown
    all_images,     \* dict new_img_name -> img_obj
    success_count,
    fail_count,
    fut,            \* the renderer invocation: "none", "running", "returned", "raised", "raised_timeout"
    fut_out,        \* what the renderer invocation returned
    elapsed,        \* ticks since the renderer invocation started
    exc,            \* the exception leaving _convert_single_pdf: "none", "deadline_timeout", "renderer_error"
    result,         \* the ConversionResult returned
    attempted,      \* history: part numbers handed to _convert_single_pdf, in order
    rendered,       \* history: part number -> what its conversion gave
    \* ---- marker_converter.py, the split plan functions called on their own ----
    count_calls,    \* the calls of _get_split_count so far: argument and return value
    split_call,     \* the call of _split_pdf: <<>> before it, its arguments and return value after
    \* ---- main.py, the files of one _convert_batch run ----
    recursive,      \* data.get("recursive", False)
    output_dir,     \* the output_dir of _convert_batch: a directory, or NoDir for None
    disk,           \* the file system: path -> content of the files that exist
    all_files,      \* the list all_files
    file_idx,       \* enumerate index i of the file loop
    results,        \* history: per converted file, its path, the directory and the file written
    batch_pc,       \* where the run stands: "collect", "loop", "done"
    \* ---- main.py, _lock and the threads that take it ----
    lock,           \* _lock: "free", or the thread holding it
    threads         \* per thread: the call it stands at, and its phase in that call

jobVars == <<state, req, workers, snapshot, last_md>>
inputVars == <<pdf_exists, file_size, total_pages, save_images>>
splitVars == <<tmp_dir, scratch_exists, split_status, split_paths>>
loopVars == <<i, md_parts, all_images, success_count, fail_count>>
futVars == <<fut, fut_out, elapsed, exc>>
histVars == <<attempted, rendered>>
planVars == <<count_calls, split_call>>
lockVars == <<lock, threads>>
batchVars == <<recursive, output_dir, disk, all_files, file_idx, results, batch_pc>>
pdfVars == <<lockVars, batchVars, planVars, inputVars, pc, splitVars, loopVars, futVars, result, histVars>>
vars == <<jobVars, pdfVars>>

\* ------------------------------------------------------------------ bounds
MaxPages == 4
PartTimeoutTicks == 2
MaxRequests == 2
MaxFiles == 2
MaxCalls == 2
MaxSplitPages == 9
MaxTreeFiles == 2
MaxConvertTicks == 2

\* ------------------------------------------------------------------ text, dicts
EmptyDict == [k \in {} |-> <<>>]

DictUpdate(d, e) ==
    [k \in (DOMAIN d) \cup (DOMAIN e) |-> IF k \in DOMAIN e THEN e[k] ELSE d[k]]

DigitChars == <<"0", "1", "2", "3", "4", "5", "6", "7", "8", "9">>

RECURSIVE Str(_)
Str(n) ==
    IF n < 10 THEN <<DigitChars[n + 1]>>
    ELSE Str(n \div 10) \o <<DigitChars[(n % 10) + 1]>>

Min(a, b) == IF a <= b THEN a ELSE b

\* ------------------------------------------------------------------ split plan
SPLIT_THRESHOLD_2 == 5 * 1024 * 1024
SPLIT_THRESHOLD_4 == 10 * 1024 * 1024

\* the thresholds compared with > where the code has >=
get_split_count_strict(size) ==
    IF size > SPLIT_THRESHOLD_4 THEN 4
    ELSE IF size > SPLIT_THRESHOLD_2 THEN 2
    ELSE 1

get_split_count(size) ==
    IF size >= SPLIT_THRESHOLD_4 THEN 4
    ELSE IF size >= SPLIT_THRESHOLD_2 THEN 2
    ELSE 1

\* total_pages // num_splits where the code has math.ceil
pages_per_split_floor(pages, n) == pages \div n

\* math.ceil(total_pages / num_splits)
pages_per_split(pages, n) == (pages + n - 1) \div n

\* the for loop of _split_pdf: one range per part written, break at start >= total_pages
RECURSIVE SplitLoop(_, _, _, _)
SplitLoop(k, n, pages, acc) ==
    IF k >= n THEN acc
    ELSE LET start == k * pages_per_split(pages, n)
             end == Min(start + pages_per_split(pages, n), pages)
         IN IF start >= pages THEN acc
            ELSE SplitLoop(k + 1, n, pages, Append(acc, [start |-> start, end |-> end]))

split_ranges(pages, n) == SplitLoop(0, n, pages, <<>>)

\* ------------------------------------------------------------------ renderer output
\* Markdown tokens: a run of text taken from the pages of part src, a bare image
\* reference "(<name>)" as the renderer writes it, a rewritten reference
\* "(<<rel_path>>)", and the "\n\n---\n\n" delimiter.
Text(p) == [kind |-> "text", src |-> p, name |-> <<>>]
Ref(n) == [kind |-> "ref", src |-> 0, name |-> n]
PathRef(rel) == [kind |-> "path", src |-> 0, name |-> rel]
Delimiter == [kind |-> "hr", src |-> 0, name |-> <<>>]

ImgA == <<"a">>
ImgB == <<"b">>

\* what converter(...) and text_from_rendered can give for the pages of part p
\* (p = 0: the whole document): markdown_text and the images dict name -> img_obj
RenderOutputs(p) ==
    { [md |-> <<Text(p)>>, images |-> EmptyDict],
      [md |-> <<Ref(ImgA), Text(p), Ref(ImgA)>>, images |-> [n \in {ImgA} |-> <<p, n>>]],
      [md |-> <<Text(p), Ref(ImgB), Ref(ImgA)>>, images |-> [n \in {ImgA, ImgB} |-> <<p, n>>]] }

NoOutput == [md |-> <<>>, images |-> EmptyDict]

Stem == <<"d", "o", "c">>
images_dir_name == Stem \o <<"_", "i", "m", "a", "g", "e", "s">>

\* f"part{part_num}_{img_name}"
new_img_name(part_num, img_name) == <<"p", "a", "r", "t">> \o Str(part_num) \o <<"_">> \o img_name

\* f"{images_dir_name}/{name}"
rel_path(name) == images_dir_name \o <<"/">> \o name

\* md_text.replace(f"({img_name})", f"(<{rel}>)")
replace(md, img_name, rel) ==
    [j \in 1..Len(md) |->
        IF md[j].kind = "ref" /\ md[j].name = img_name THEN PathRef(rel) ELSE md[j]]

\* "\n\n---\n\n".join(parts)
RECURSIVE join(_)
join(parts) ==
    IF parts = <<>> THEN <<>>
    ELSE IF Len(parts) = 1 THEN parts[1]
    ELSE parts[1] \o <<Delimiter>> \o join(Tail(parts))

\* the body of "for img_name, img_obj in images.items()" in _convert_pdf_split, on the text
RECURSIVE RewriteSplit(_, _, _)
RewriteSplit(md, names, part_num) ==
    IF names = {} THEN md
    ELSE LET n == CHOOSE x \in names : TRUE
         IN RewriteSplit(replace(md, n, rel_path(new_img_name(part_num, n))),
                         names \ {n}, part_num)

\* the same loop on all_images: all_images[new_img_name] = img_obj
PrefixedImages(images, part_num) ==
    LET keys == { new_img_name(part_num, n) : n \in DOMAIN images }
    IN [k \in keys |-> images[CHOOSE n \in DOMAIN images : new_img_name(part_num, n) = k]]

\* the body of "for img_name, img_obj in images.items()" in _convert_pdf_single
RECURSIVE RewriteSingle(_, _)
RewriteSingle(md, names) ==
    IF names = {} THEN md
    ELSE LET n == CHOOSE x \in names : TRUE
         IN RewriteSingle(replace(md, n, rel_path(n)), names \ {n})

\* ------------------------------------------------------------------ ConversionResult
ConversionResult(success, markdown, images, metadata, error) ==
    [success |-> success, markdown |-> markdown, images |-> images,
     metadata |-> metadata, error |-> error]

\* a failure return that leaves error at its default
Failure_without_error(error) == ConversionResult(FALSE, <<>>, EmptyDict, EmptyDict, "None")

\* ConversionResult(success=False, markdown="", images={}, metadata={}, error=...)
Failure(error) == ConversionResult(FALSE, <<>>, EmptyDict, EmptyDict, error)

NoResult == ConversionResult(FALSE, <<>>, EmptyDict, EmptyDict, "unset")

\* ------------------------------------------------------------------ initial states
Sizes == {SPLIT_THRESHOLD_2 - 1, SPLIT_THRESHOLD_2, SPLIT_THRESHOLD_4 - 1, SPLIT_THRESHOLD_4}

RECURSIVE GCD(_, _)
GCD(a, b) == IF b = 0 THEN a ELSE GCD(b, a % b)

\* progress is a number: the fraction num / den in lowest terms
Progress(num, den) == [num |-> num \div GCD(num, den), den |-> den \div GCD(num, den)]

\* _state as main.py builds it
StateInit ==
    [running |-> FALSE, progress |-> Progress(0, 1), status |-> "waiting", logs |-> <<>>,
     result_path |-> "None"]

Requests == 1..MaxRequests

\* converted is history: the positions (1-based, in all_files) of the files handed to
\* convert_pdf / convert_docx, in the order of the calls
\* written is history: the number of Markdown files the job's conversions wrote
NoWorker ==
    [kind |-> "none", pc |-> "unborn", total |-> 0, idx |-> 0,
     success_count |-> 0, fail_count |-> 0, converted |-> <<>>, written |-> 0]

JobInit ==
    /\ state = StateInit
    /\ req = [h \in Requests |-> [pc |-> "new", kind |-> "none", response |-> 0]]
    /\ workers = [h \in Requests |-> NoWorker]
    /\ snapshot = [response |-> StateInit, active |-> {}]
    /\ last_md = "None"

\* ------------------------------------------------------------------ _lock
Threads == {"handler", "worker", "status", "download"}

LockIdle ==
    /\ lock = "free"
    /\ threads = [t \in Threads |-> [at |-> "none", phase |-> "none", ticks |-> 0,
                                     total |-> 0, n |-> 0]]

\* ------------------------------------------------------------------ paths and files
\* A directory is the sequence of its components; a file path is its directory and its
\* name, a name its stem and its suffix.  None, for a directory, is NoDir (an empty
\* output_dir string is turned into None before any Path is made of it).
NoDir == <<>>
input_dir == <<"in">>

\* Path(d) / name
file_in(d, stem, ext) == [dir |-> d, name |-> [stem |-> stem, ext |-> ext]]

\* path.parent
parent(path) == path.dir

\* d.relative_to(base), for d at or below base
relative_to(d, base) == SubSeq(d, Len(base) + 1, Len(d))

\* doc_path.with_suffix(ext)
with_suffix(path, ext) == [path EXCEPT !.name.ext = ext]

\* contents: what a source file holds, what its conversion to Markdown gives, and
\* what doc2docx writes for a .doc file
Source(path) == [kind |-> "source", of |-> path]
MarkdownOf(content) == [kind |-> "markdown", of |-> content.of]
DocxOf(content) == [kind |-> "docx", of |-> content.of]

EmptyDisk == [path \in {} |-> Source(file_in(NoDir, "", ""))]

\* path.write_text / convert(...) writing path
write(d, path, content) ==
    [q \in (DOMAIN d) \cup {path} |-> IF q = path THEN content ELSE d[q]]

\* path.unlink()
unlink(d, path) == [q \in (DOMAIN d) \ {path} |-> d[q]]

\* the input trees: up to MaxTreeFiles source files named a or b, with the three
\* supported suffixes, in input_dir or in its subdirectory sub
SourceFiles ==
    { file_in(input_dir \o sub, stem, ext) :
          sub \in {<<>>, <<"sub">>}, stem \in {"a", "b"}, ext \in {".pdf", ".doc", ".docx"} }

Trees == { t \in SUBSET SourceFiles : Cardinality(t) <= MaxTreeFiles }

BatchIdle ==
    /\ recursive = FALSE
    /\ output_dir = NoDir
    /\ disk = EmptyDisk
    /\ all_files = <<>>
    /\ file_idx = 0
    /\ results = <<>>
    /\ batch_pc = "done"

PdfIdle ==
    /\ count_calls = <<>>
    /\ split_call = <<>>
    /\ pc = "convert_pdf"
    /\ tmp_dir = "None"
    /\ scratch_exists = FALSE
    /\ split_status = "none"
    /\ split_paths = <<>>
    /\ i = 0
    /\ md_parts = <<>>
    /\ all_images = EmptyDict
    /\ success_count = 0
    /\ fail_count = 0
    /\ fut = "none"
    /\ fut_out = NoOutput
    /\ elapsed = 0
    /\ exc = "none"
    /\ result = NoResult
    /\ attempted = <<>>
    /\ rendered = EmptyDict

\* the arguments and the file convert_pdf is called on
InitPdf ==
    /\ JobInit
    /\ BatchIdle
    /\ pdf_exists \in BOOLEAN
    /\ file_size \in Sizes
    /\ total_pages \in 0..MaxPages
    /\ save_images \in BOOLEAN
    /\ PdfIdle
    /\ LockIdle

num_splits == get_split_count(file_size)
part_num == i + 1

\* ------------------------------------------------------------------ convert_pdf
\* "if num_splits <= 2" where the code has "if num_splits == 1"
convert_pdf_direct_up_to_two ==
    /\ pc = "convert_pdf"
    /\ IF ~pdf_exists
         THEN /\ result' = Failure("file_not_found")
              /\ pc' = "done"
         ELSE /\ result' = result
              /\ pc' = IF num_splits <= 2 THEN "single" ELSE "split"
    /\ UNCHANGED <<jobVars, lockVars, batchVars, planVars, inputVars, splitVars, loopVars, futVars, histVars>>

convert_pdf ==
    /\ pc = "convert_pdf"
    /\ IF ~pdf_exists
         THEN /\ result' = Failure("file_not_found")
              /\ pc' = "done"
         ELSE /\ result' = result
              /\ pc' = IF num_splits = 1 THEN "single" ELSE "split"
    /\ UNCHANGED <<jobVars, lockVars, batchVars, planVars, inputVars, splitVars, loopVars, futVars, histVars>>

\* ------------------------------------------------------------------ the renderer
\* converter(str(pdf_path)) followed by text_from_rendered ends by returning ...
RendererReturns ==
    /\ fut = "running"
    /\ \E o \in RenderOutputs(IF pc = "single_wait" THEN 0 ELSE part_num) :
          fut_out' = o
    /\ fut' = "returned"
    /\ UNCHANGED <<jobVars, lockVars, batchVars, planVars, inputVars, pc, splitVars, loopVars, elapsed, exc, result, histVars>>

\* ... or by raising: an error of its own, or one whose type is TimeoutError
RendererRaises ==
    /\ fut = "running"
    /\ fut' \in {"raised", "raised_timeout"}
    /\ UNCHANGED <<jobVars, lockVars, batchVars, planVars, inputVars, pc, splitVars, loopVars, fut_out, elapsed, exc, result, histVars>>

\* time passes while the renderer runs; future.result(timeout) wakes at the deadline,
\* so the clock does not pass it while the caller is in future.result
Tick ==
    /\ fut = "running"
    /\ elapsed <= PartTimeoutTicks
    /\ pc = "wait_result" => elapsed < PartTimeoutTicks
    /\ elapsed' = elapsed + 1
    /\ UNCHANGED <<jobVars, lockVars, batchVars, planVars, inputVars, pc, splitVars, loopVars, fut, fut_out, exc, result, histVars>>

\* ------------------------------------------------------------------ _convert_pdf_single
convert_pdf_single_call ==
    /\ pc = "single"
    /\ fut' = "running"
    /\ elapsed' = 0
    /\ pc' = "single_wait"
    /\ UNCHANGED <<jobVars, lockVars, batchVars, planVars, inputVars, splitVars, loopVars, fut_out, exc, result, histVars>>

convert_pdf_single_finish ==
    /\ pc = "single_wait"
    /\ fut # "running"
    /\ IF fut = "returned"
         THEN LET images == fut_out.images
                  markdown_text ==
                      IF save_images /\ DOMAIN images # {}
                        THEN RewriteSingle(fut_out.md, DOMAIN images)
                        ELSE fut_out.md
              IN result' = ConversionResult(TRUE, markdown_text, images, EmptyDict, "None")
         ELSE result' = Failure("renderer_error")
    /\ pc' = "done"
    /\ UNCHANGED <<jobVars, lockVars, batchVars, planVars, inputVars, splitVars, loopVars, futVars, histVars>>

\* ------------------------------------------------------------------ _split_pdf
\* PdfReader raises on a malformed source, before tempfile.mkdtemp
split_pdf_raises_reading ==
    /\ pc = "split"
    /\ split_status' = "raised_before_mkdtemp"
    /\ pc' = "except"
    /\ UNCHANGED <<jobVars, lockVars, batchVars, planVars, inputVars, tmp_dir, scratch_exists, split_paths, loopVars, futVars, result, histVars>>

\* writing a part raises, after tempfile.mkdtemp: the caller's
\* "split_paths, tmp_dir = _split_pdf(...)" is never assigned
split_pdf_raises_writing ==
    /\ pc = "split"
    /\ split_ranges(total_pages, num_splits) # <<>>
    /\ scratch_exists' = TRUE
    /\ split_status' = "raised_after_mkdtemp"
    /\ pc' = "except"
    /\ UNCHANGED <<jobVars, lockVars, batchVars, planVars, inputVars, tmp_dir, split_paths, loopVars, futVars, result, histVars>>

split_pdf_returns ==
    /\ pc = "split"
    /\ scratch_exists' = TRUE
    /\ tmp_dir' = "pdf_split_dir"
    /\ split_paths' = split_ranges(total_pages, num_splits)
    /\ split_status' = "ok"
    /\ pc' = "loop"
    /\ UNCHANGED <<jobVars, lockVars, batchVars, planVars, inputVars, loopVars, futVars, result, histVars>>

\* ------------------------------------------------------------------ _convert_single_pdf
\* loop head with a part left: executor.submit(_run) for it
convert_single_pdf_submit ==
    /\ pc = "loop"
    /\ i < Len(split_paths)
    /\ attempted' = Append(attempted, part_num)
    /\ fut' = "running"
    /\ fut_out' = NoOutput
    /\ elapsed' = 0
    /\ exc' = "none"
    /\ pc' = "wait_result"
    /\ UNCHANGED <<jobVars, lockVars, batchVars, planVars, inputVars, splitVars, loopVars, result, rendered>>

\* future.result(timeout) with the invocation over: its value, its error, or, for an
\* error of type TimeoutError, the except clause's own TimeoutError.  The with block
\* is left at once: the executor's worker is idle.
future_result ==
    /\ pc = "wait_result"
    /\ fut # "running"
    /\ exc' = CASE fut = "returned" -> "none"
                [] fut = "raised" -> "renderer_error"
                [] fut = "raised_timeout" -> "deadline_timeout"
    /\ pc' = IF fut = "returned" THEN "part_ok" ELSE "part_failed"
    /\ UNCHANGED <<jobVars, lockVars, batchVars, planVars, inputVars, splitVars, loopVars, fut, fut_out, elapsed, result, histVars>>

\* future.result(timeout) at the deadline with the invocation still running: TimeoutError
\* is raised inside the with block, whose exit is executor.shutdown(wait=True)
future_timeout ==
    /\ pc = "wait_result"
    /\ fut = "running"
    /\ elapsed = PartTimeoutTicks
    /\ exc' = "deadline_timeout"
    /\ pc' = "shutdown_wait"
    /\ UNCHANGED <<jobVars, lockVars, batchVars, planVars, inputVars, splitVars, loopVars, fut, fut_out, elapsed, result, histVars>>

\* shutdown(wait=False): the TimeoutError reaches the caller while the worker runs on
executor_exit_no_wait ==
    /\ pc = "shutdown_wait"
    /\ pc' = "part_failed"
    /\ UNCHANGED <<jobVars, lockVars, batchVars, planVars, inputVars, splitVars, loopVars, futVars, result, histVars>>

\* ThreadPoolExecutor.__exit__: shutdown(wait=True) joins the worker thread, and only
\* then does the TimeoutError reach the caller
executor_exit ==
    /\ pc = "shutdown_wait"
    /\ fut # "running"
    /\ pc' = "part_failed"
    /\ UNCHANGED <<jobVars, lockVars, batchVars, planVars, inputVars, splitVars, loopVars, futVars, result, histVars>>

\* ------------------------------------------------------------------ _convert_pdf_split
\* a break where the code has continue
part_failed_breaks ==
    /\ pc = "part_failed"
    /\ fail_count' = fail_count + 1
    /\ rendered' = DictUpdate(rendered,
           [k \in {part_num} |-> [ok |-> FALSE, md |-> <<>>, images |-> EmptyDict, error |-> exc]])
    /\ i' = Len(split_paths)
    /\ fut' = "none"
    /\ pc' = "loop"
    /\ UNCHANGED <<jobVars, lockVars, batchVars, planVars, inputVars, splitVars, md_parts, all_images, success_count,
                   fut_out, elapsed, exc, result, attempted>>

\* except Exception as e: fail_count += 1; continue
part_failed ==
    /\ pc = "part_failed"
    /\ fail_count' = fail_count + 1
    /\ rendered' = DictUpdate(rendered,
           [k \in {part_num} |-> [ok |-> FALSE, md |-> <<>>, images |-> EmptyDict, error |-> exc]])
    /\ i' = i + 1
    /\ fut' = "none"
    /\ pc' = "loop"
    /\ UNCHANGED <<jobVars, lockVars, batchVars, planVars, inputVars, splitVars, md_parts, all_images, success_count,
                   fut_out, elapsed, exc, result, attempted>>

prepend_part(parts, md_text) == <<md_text>> \o parts

\* md_parts.append(md_text)
append_part(parts, md_text) == Append(parts, md_text)

\* the rest of the loop body after _convert_single_pdf returned
part_succeeded ==
    /\ pc = "part_ok"
    /\ success_count' = success_count + 1
    /\ LET images == fut_out.images
           saving == save_images /\ DOMAIN images # {}
           md_text == IF saving THEN RewriteSplit(fut_out.md, DOMAIN images, part_num)
                      ELSE fut_out.md
       IN /\ all_images' = IF saving THEN DictUpdate(all_images, PrefixedImages(images, part_num))
                           ELSE all_images
          /\ md_parts' = append_part(md_parts, md_text)
    /\ rendered' = DictUpdate(rendered,
           [k \in {part_num} |-> [ok |-> TRUE, md |-> fut_out.md, images |-> fut_out.images, error |-> "None"]])
    /\ i' = i + 1
    /\ fut' = "none"
    /\ pc' = "loop"
    /\ UNCHANGED <<jobVars, lockVars, batchVars, planVars, inputVars, splitVars, fail_count, fut_out, elapsed, exc, result, attempted>>

split_metadata_requested(paths, succeeded, failed) ==
    [split_count |-> num_splits, success_count |-> succeeded, fail_count |-> failed]

\* the metadata dict of the successful return
split_metadata(paths, succeeded, failed) ==
    [split_count |-> Len(paths), success_count |-> succeeded, fail_count |-> failed]

\* after the loop: steps 3) and 4), up to the return statement
merge ==
    /\ pc = "loop"
    /\ i >= Len(split_paths)
    /\ IF md_parts = <<>>
         THEN result' = Failure("all_parts_failed")
         ELSE result' = ConversionResult(TRUE, join(md_parts), all_images,
                            split_metadata(split_paths, success_count, fail_count),
                            "None")
    /\ pc' = "finally"
    /\ UNCHANGED <<jobVars, lockVars, batchVars, planVars, inputVars, splitVars, loopVars, futVars, histVars>>

\* except Exception as e: of the outer try
split_except ==
    /\ pc = "except"
    /\ result' = Failure("split_error")
    /\ pc' = "finally"
    /\ UNCHANGED <<jobVars, lockVars, batchVars, planVars, inputVars, splitVars, loopVars, futVars, histVars>>

\* the rmtree at the end of the try block instead of in finally
cleanup_on_success(tmp, exists) == IF tmp # "None" /\ exists /\ result.success THEN FALSE ELSE exists

\* if tmp_dir and os.path.exists(tmp_dir): shutil.rmtree(tmp_dir, ignore_errors=True)
cleanup(tmp, exists) == IF tmp # "None" /\ exists THEN FALSE ELSE exists

\* finally:
split_finally ==
    /\ pc = "finally"
    /\ scratch_exists' = cleanup(tmp_dir, scratch_exists)
    /\ pc' = "done"
    /\ UNCHANGED <<jobVars, lockVars, batchVars, planVars, inputVars, tmp_dir, split_status, split_paths, loopVars, futVars, result, histVars>>

NextPdf ==
    \/ convert_pdf
    \/ RendererReturns
    \/ RendererRaises
    \/ Tick
    \/ convert_pdf_single_call
    \/ convert_pdf_single_finish
    \/ split_pdf_raises_reading
    \/ split_pdf_raises_writing
    \/ split_pdf_returns
    \/ convert_single_pdf_submit
    \/ future_result
    \/ future_timeout
    \/ executor_exit
    \/ part_failed
    \/ part_succeeded
    \/ merge
    \/ split_except
    \/ split_finally

SpecPdf == InitPdf /\ [][NextPdf]_vars

\* ================================================================== main.py
\* _reset_state()
reset_state(s) ==
    [running |-> FALSE, progress |-> Progress(0, 1), status |-> "waiting", logs |-> <<>>,
     result_path |-> "None"]

\* _log(message)
log(s, message) == [s EXCEPT !.logs = Append(@, message)]

\* _set(...): upd holds the keyword arguments given (the others are None)
set(s, upd) == [k \in DOMAIN s |-> IF k \in DOMAIN upd THEN upd[k] ELSE s[k]]

Active(h) == workers[h].pc \notin {"unborn", "done"}

\* ------------------------------------------------------------------ job-start handlers
reject_after_reset(h, kind) ==
    /\ req[h].pc = "new"
    /\ IF state.running
         THEN /\ req' = [req EXCEPT ![h] = [@ EXCEPT !.kind = kind, !.pc = "done", !.response = 409]]
              /\ state' = reset_state(state)
         ELSE /\ req' = [req EXCEPT ![h] = [@ EXCEPT !.kind = kind, !.pc = "validate"]]
              /\ state' = state
    /\ UNCHANGED <<workers, snapshot, last_md, pdfVars>>

\* with _lock: if _state["running"]: return 409   (upload_convert and start_convert alike)
guard(h, kind) ==
    /\ req[h].pc = "new"
    /\ IF state.running
         THEN req' = [req EXCEPT ![h] = [@ EXCEPT !.kind = kind, !.pc = "done", !.response = 409]]
         ELSE req' = [req EXCEPT ![h] = [@ EXCEPT !.kind = kind, !.pc = "validate"]]
    /\ UNCHANGED <<state, workers, snapshot, last_md, pdfVars>>

upload_convert_guard(h) == guard(h, "upload")

start_convert_guard(h) == guard(h, "batch")

\* Path.suffix of an uploaded file whose name passed the extension check: of
\* "doc.pdf", "doc.docx", "doc.doc", and of ".pdf", which ends with an allowed
\* extension and has the empty suffix
Suffixes == {".pdf", ".docx", ".doc", ""}

\* upload_convert from the file checks to _reset_state()
upload_convert_validate(h) ==
    /\ req[h].pc = "validate"
    /\ req[h].kind = "upload"
    /\ \E input \in {"ok", "no_file", "bad_extension"} :
          IF input = "ok"
            THEN /\ req' = [req EXCEPT ![h] = [@ EXCEPT !.pc = "set_running"]]
                 /\ state' = reset_state(state)
            ELSE /\ req' = [req EXCEPT ![h] = [@ EXCEPT !.pc = "done", !.response = 400]]
                 /\ state' = state
    /\ UNCHANGED <<workers, snapshot, last_md, pdfVars>>

\* start_convert with _reset_state() moved before the checks of the request
start_convert_reset_first(h) ==
    /\ req[h].pc = "validate"
    /\ req[h].kind = "batch"
    /\ state' = reset_state(state)
    /\ \E input \in {"ok", "bad_mode", "empty_input_dir", "missing_input_dir"} :
          IF input = "ok"
            THEN req' = [req EXCEPT ![h] = [@ EXCEPT !.pc = "set_running"]]
            ELSE req' = [req EXCEPT ![h] = [@ EXCEPT !.pc = "done", !.response = 400]]
    /\ UNCHANGED <<workers, snapshot, last_md, pdfVars>>

\* start_convert from request.json to _reset_state()
start_convert_validate(h) ==
    /\ req[h].pc = "validate"
    /\ req[h].kind = "batch"
    /\ \E input \in {"ok", "bad_mode", "empty_input_dir", "missing_input_dir"} :
          IF input = "ok"
            THEN /\ req' = [req EXCEPT ![h] = [@ EXCEPT !.pc = "set_running"]]
                 /\ state' = reset_state(state)
            ELSE /\ req' = [req EXCEPT ![h] = [@ EXCEPT !.pc = "done", !.response = 400]]
                 /\ state' = state
    /\ UNCHANGED <<workers, snapshot, last_md, pdfVars>>

\* _set(running=True)
handler_set_running(h) ==
    /\ req[h].pc = "set_running"
    /\ state' = set(state, [running |-> TRUE])
    /\ req' = [req EXCEPT ![h] = [@ EXCEPT !.pc = "start_thread"]]
    /\ UNCHANGED <<workers, snapshot, last_md, pdfVars>>

\* threading.Thread(target=..., daemon=True).start(); return jsonify({"ok": True})
handler_start_thread(h) ==
    /\ req[h].pc = "start_thread"
    /\ workers' = [workers EXCEPT ![h] =
           [NoWorker EXCEPT !.kind = req[h].kind,
                            !.pc = IF req[h].kind = "upload" THEN "u_set" ELSE "b_import"]]
    /\ req' = [req EXCEPT ![h] = [@ EXCEPT !.pc = "done", !.response = 200]]
    /\ UNCHANGED <<state, snapshot, last_md, pdfVars>>

\* ------------------------------------------------------------------ _convert_uploaded
\* the Markdown file of an upload job: output_dir / (file_path.stem + ".md"), for
\* the upload named doc<h> (the uploads have names of their own)
md_path(h) == "output/doc" \o ToString(h) \o ".md"

\* the Markdown file convert_pdf / convert_docx write for the i-th file of batch h
batch_md_path(h, idx) == "batch" \o ToString(h) \o "/file" \o ToString(idx) \o ".md"

\* _set(status=f"변환 중: ...", progress=0)
convert_uploaded_set(h) ==
    /\ workers[h].pc = "u_set"
    /\ state' = set(state, [status |-> "converting", progress |-> Progress(0, 1)])
    /\ workers' = [workers EXCEPT ![h].pc = "u_log_start"]
    /\ UNCHANGED <<req, snapshot, last_md, pdfVars>>

\* _log(f"변환 시작: ...")
convert_uploaded_log_start(h) ==
    /\ workers[h].pc = "u_log_start"
    /\ state' = log(state, "start")
    /\ workers' = [workers EXCEPT ![h].pc = "u_convert"]
    /\ UNCHANGED <<req, snapshot, last_md, pdfVars>>

\* the suffix test (the file's name is read here for the first time) and the
\* convert_pdf / convert_docx call; when the call gave no success, also the first
\* use of _lock after it, the _log of the outcome
convert_uploaded_convert(h) ==
    /\ workers[h].pc = "u_convert"
    /\ \E ext \in Suffixes :
       IF ext \notin {".pdf", ".doc", ".docx"}
         THEN /\ state' = log(state, "unsupported")
              /\ workers' = [workers EXCEPT ![h].pc = "u_set_error"]
              /\ last_md' = last_md
         ELSE \E outcome \in {"success", "failure", "raised"} :
                CASE outcome = "success" ->
                       /\ state' = state
                       /\ workers' = [workers EXCEPT ![h].pc = "u_result", ![h].written = 1]
                       /\ last_md' = md_path(h)
                  [] outcome = "failure" ->
                       /\ state' = log(state, "failed")
                       /\ workers' = [workers EXCEPT ![h].pc = "u_set_done"]
                       /\ last_md' = last_md
                  [] outcome = "raised" ->
                       /\ state' = log(state, "exception")
                       /\ workers' = [workers EXCEPT ![h].pc = "u_finally"]
                       /\ last_md' = last_md
    /\ UNCHANGED <<req, snapshot, pdfVars>>

\* if result.success: with _lock: _state["result_path"] = str(md_path)
convert_uploaded_result(h) ==
    /\ workers[h].pc = "u_result"
    /\ state' = [state EXCEPT !.result_path = md_path(h)]
    /\ workers' = [workers EXCEPT ![h].pc = "u_log_success"]
    /\ UNCHANGED <<req, snapshot, last_md, pdfVars>>

\* _log(f"[성공] ...")
convert_uploaded_log_success(h) ==
    /\ workers[h].pc = "u_log_success"
    /\ state' = log(state, "success")
    /\ workers' = [workers EXCEPT ![h].pc = "u_set_done"]
    /\ UNCHANGED <<req, snapshot, last_md, pdfVars>>

\* _set(status="오류", progress=0); return
convert_uploaded_set_error(h) ==
    /\ workers[h].pc = "u_set_error"
    /\ state' = set(state, [status |-> "error", progress |-> Progress(0, 1)])
    /\ workers' = [workers EXCEPT ![h].pc = "u_finally"]
    /\ UNCHANGED <<req, snapshot, last_md, pdfVars>>

\* _set(status="완료", progress=100)
convert_uploaded_set_done(h) ==
    /\ workers[h].pc = "u_set_done"
    /\ state' = set(state, [status |-> "done", progress |-> Progress(100, 1)])
    /\ workers' = [workers EXCEPT ![h].pc = "u_finally"]
    /\ UNCHANGED <<req, snapshot, last_md, pdfVars>>

\* finally: remove the uploaded file; _set(running=False)
convert_uploaded_finally(h) ==
    /\ workers[h].pc = "u_finally"
    /\ state' = set(state, [running |-> FALSE])
    /\ workers' = [workers EXCEPT ![h] = [NoWorker EXCEPT !.kind = "upload", !.pc = "done"]]
    /\ UNCHANGED <<req, snapshot, last_md, pdfVars>>

\* ------------------------------------------------------------------ _run_convert, _convert_batch
\* the import, the file collection and the first _log: the ImportError line, the
\* no-files notice, or the count of files found
convert_batch_begin(h) ==
    /\ workers[h].pc = "b_import"
    /\ \/ /\ state' = log(state, "import_error")
          /\ workers' = [workers EXCEPT ![h].pc = "b_set_error"]
       \/ \E total \in 0..MaxFiles :
             IF total = 0
               THEN /\ state' = log(state, "no_files")
                    /\ workers' = [workers EXCEPT ![h].pc = "b_set_no_files"]
               ELSE /\ state' = log(state, "found")
                    /\ workers' = [workers EXCEPT ![h].pc = "b_set_file", ![h].total = total, ![h].idx = 1]
    /\ UNCHANGED <<req, snapshot, last_md, pdfVars>>

\* _set(status="오류", progress=0); return
convert_batch_set_error(h) ==
    /\ workers[h].pc = "b_set_error"
    /\ state' = set(state, [status |-> "error", progress |-> Progress(0, 1)])
    /\ workers' = [workers EXCEPT ![h].pc = "b_finally"]
    /\ UNCHANGED <<req, snapshot, last_md, pdfVars>>

\* _set(status="완료", progress=100); return     (no files)
convert_batch_set_no_files(h) ==
    /\ workers[h].pc = "b_set_no_files"
    /\ state' = set(state, [status |-> "done", progress |-> Progress(100, 1)])
    /\ workers' = [workers EXCEPT ![h].pc = "b_finally"]
    /\ UNCHANGED <<req, snapshot, last_md, pdfVars>>

\* loop head: _set(status=f"변환 중: ... ({i}/{total})", progress=((i - 1) / total) * 100)
convert_batch_set_file(h) ==
    /\ workers[h].pc = "b_set_file"
    /\ state' = set(state, [status |-> "converting",
                            progress |-> Progress((workers[h].idx - 1) * 100, workers[h].total)])
    /\ workers' = [workers EXCEPT ![h].pc = "b_convert"]
    /\ UNCHANGED <<req, snapshot, last_md, pdfVars>>

\* convert_pdf / convert_docx on the file and the _log of its outcome: a result with
\* success, a result without, or an exception raised by the code the converters run
\* outside their try blocks (output_dir.mkdir, pdf_path.stat), which leaves
\* _convert_batch and is logged by _run_convert
convert_batch_convert(h) ==
    /\ workers[h].pc = "b_convert"
    /\ LET next == IF workers[h].idx < workers[h].total THEN "b_set_file" ELSE "b_set_done"
           called == Append(workers[h].converted, workers[h].idx)
       IN \E outcome \in {"success", "failure", "raised"} :
            CASE outcome = "success" ->
                   /\ state' = log(state, "success")
                   /\ workers' = [workers EXCEPT ![h].pc = next, ![h].idx = @ + 1,
                                                 ![h].success_count = @ + 1,
                                                 ![h].converted = called,
                                                 ![h].written = @ + 1]
                   /\ last_md' = batch_md_path(h, workers[h].idx)
              [] outcome = "failure" ->
                   /\ state' = log(state, "failed")
                   /\ workers' = [workers EXCEPT ![h].pc = next, ![h].idx = @ + 1,
                                                 ![h].fail_count = @ + 1,
                                                 ![h].converted = called]
                   /\ last_md' = last_md
              [] outcome = "raised" ->
                   /\ state' = log(state, "exception")
                   /\ workers' = [workers EXCEPT ![h].pc = "b_finally",
                                                 ![h].converted = called]
                   /\ last_md' = last_md
    /\ UNCHANGED <<req, snapshot, pdfVars>>

\* after the loop: _set(status="완료", progress=100)
convert_batch_set_done(h) ==
    /\ workers[h].pc = "b_set_done"
    /\ state' = set(state, [status |-> "done", progress |-> Progress(100, 1)])
    /\ workers' = [workers EXCEPT ![h].pc = "b_log_summary"]
    /\ UNCHANGED <<req, snapshot, last_md, pdfVars>>

\* _log(f"\n--- 결과: 성공 ... / 실패 ... / 총 ... ---")
convert_batch_log_summary(h) ==
    /\ workers[h].pc = "b_log_summary"
    /\ state' = log(state, "summary")
    /\ workers' = [workers EXCEPT ![h].pc = "b_finally"]
    /\ UNCHANGED <<req, snapshot, last_md, pdfVars>>

\* _run_convert without its finally clause: the thread ends and running stays as it is
run_convert_no_finally(h) ==
    /\ workers[h].pc = "b_finally"
    /\ workers' = [workers EXCEPT ![h] = [NoWorker EXCEPT !.kind = "batch", !.pc = "done"]]
    /\ UNCHANGED <<state, req, snapshot, last_md, pdfVars>>

\* _run_convert's finally: _set(running=False)
run_convert_finally(h) ==
    /\ workers[h].pc = "b_finally"
    /\ state' = set(state, [running |-> FALSE])
    /\ workers' = [workers EXCEPT ![h] = [NoWorker EXCEPT !.kind = "batch", !.pc = "done"]]
    /\ UNCHANGED <<req, snapshot, last_md, pdfVars>>

\* ------------------------------------------------------------------ specification
\* no convert_pdf call is followed step by step here: its outcome is an input of the worker
Init ==
    /\ JobInit
    /\ BatchIdle
    /\ pdf_exists = FALSE
    /\ file_size = 0
    /\ total_pages = 0
    /\ save_images = FALSE
    /\ PdfIdle
    /\ LockIdle

Next ==
    \E h \in Requests :
        \/ upload_convert_guard(h)
        \/ upload_convert_validate(h)
        \/ start_convert_guard(h)
        \/ start_convert_validate(h)
        \/ handler_set_running(h)
        \/ handler_start_thread(h)
        \/ convert_uploaded_set(h)
        \/ convert_uploaded_log_start(h)
        \/ convert_uploaded_convert(h)
        \/ convert_uploaded_result(h)
        \/ convert_uploaded_log_success(h)
        \/ convert_uploaded_set_error(h)
        \/ convert_uploaded_set_done(h)
        \/ convert_uploaded_finally(h)
        \/ convert_batch_begin(h)
        \/ convert_batch_set_error(h)
        \/ convert_batch_set_no_files(h)
        \/ convert_batch_set_file(h)
        \/ convert_batch_convert(h)
        \/ convert_batch_set_done(h)
        \/ convert_batch_log_summary(h)
        \/ run_convert_finally(h)

Spec == Init /\ [][Next]_vars

\* the steps of the worker thread started for request h
WorkerStep(h) ==
    \/ convert_uploaded_set(h)
    \/ convert_uploaded_log_start(h)
    \/ convert_uploaded_convert(h)
    \/ convert_uploaded_result(h)
    \/ convert_uploaded_log_success(h)
    \/ convert_uploaded_set_error(h)
    \/ convert_uploaded_set_done(h)
    \/ convert_uploaded_finally(h)
    \/ convert_batch_begin(h)
    \/ convert_batch_set_error(h)
    \/ convert_batch_set_no_files(h)
    \/ convert_batch_set_file(h)
    \/ convert_batch_convert(h)
    \/ convert_batch_set_done(h)
    \/ convert_batch_log_summary(h)
    \/ run_convert_finally(h)

\* a started thread keeps being scheduled, _lock is released after every acquisition,
\* and every convert_pdf / convert_docx call comes back (by returning or raising)
SpecFair == Init /\ [][Next]_vars /\ \A h \in Requests : WF_vars(WorkerStep(h))

\* ================================================================== get_status
\* with _lock: return jsonify({... "logs": list(_state["logs"]) ...}): a copy of _state
get_status ==
    /\ snapshot' = [response |-> state, active |-> { h \in Requests : Active(h) }]
    /\ UNCHANGED <<state, req, workers, last_md, pdfVars>>

NextStatus == Next \/ get_status

SpecStatus == Init /\ [][NextStatus]_vars

\* ================================================================== _convert_batch and its files
\* input_dir.rglob("*" + ext) when recursive, input_dir.glob("*" + ext) otherwise
glob(ext) ==
    { path \in DOMAIN disk :
          /\ path.name.ext = ext
          /\ (recursive \/ parent(path) = input_dir) }

\* the orders a directory listing can give the files of a set in
Orderings(files) ==
    { order \in [1..Cardinality(files) -> files] :
          \A j, k \in 1..Cardinality(files) : j # k => order[j] # order[k] }

\* current_output with the mirroring left out
current_output_flat(file_path) == output_dir

\* if recursive and output_dir: output_dir / file_path.parent.relative_to(input_dir)
\* else: output_dir
current_output(file_path) ==
    IF recursive /\ output_dir # NoDir
      THEN output_dir \o relative_to(parent(file_path), input_dir)
      ELSE output_dir

\* converter.convert_batch: output_dir defaults to input_dir, and when recursive
\* current_output_dir = output_dir / pdf_path.parent.relative_to(input_dir)
convert_batch_output_dir(pdf_path) ==
    LET out == IF output_dir = NoDir THEN input_dir ELSE output_dir
    IN IF recursive THEN out \o relative_to(parent(pdf_path), input_dir) ELSE out

\* convert_pdf, convert_docx: if output_dir is None: output_dir = path.parent
converter_output_dir(path, out) == IF out = NoDir THEN parent(path) ELSE out

\* output_dir / (stem + ".md")
md_file(out, stem) == file_in(out, stem, ".md")

file_path == all_files[file_idx]

\* the loop moves on: the next file, or the end of the function
next_file(entry) ==
    /\ results' = Append(results, entry)
    /\ file_idx' = file_idx + 1
    /\ batch_pc' = IF file_idx < Len(all_files) THEN "loop" ELSE "done"

no_output(path, out) == [file |-> path, out_dir |-> out, md |-> md_file(NoDir, ""), success |-> FALSE]

\* the three glob calls, in the order *.pdf, *.doc, *.docx, and the test of all_files
collect_files ==
    /\ batch_pc = "collect"
    /\ \E pdfs \in Orderings(glob(".pdf")), docs \in Orderings(glob(".doc")),
          docxs \in Orderings(glob(".docx")) :
          /\ all_files' = pdfs \o docs \o docxs
          /\ batch_pc' = IF pdfs \o docs \o docxs = <<>> THEN "done" ELSE "loop"
    /\ file_idx' = 1
    /\ UNCHANGED <<jobVars, lockVars, recursive, output_dir, disk, results, planVars, inputVars, pc,
                   splitVars, loopVars, futVars, result, histVars>>

\* loop body for a .pdf file: convert_pdf(file_path, current_output, ...)
convert_pdf_file ==
    /\ batch_pc = "loop"
    /\ file_path.name.ext = ".pdf"
    /\ LET out == converter_output_dir(file_path, current_output(file_path))
           md == md_file(out, file_path.name.stem)
       IN IF file_path \notin DOMAIN disk
            THEN /\ disk' = disk
                 /\ next_file(no_output(file_path, out))
            ELSE \E success \in BOOLEAN :
                   IF success
                     THEN /\ disk' = write(disk, md, MarkdownOf(disk[file_path]))
                          /\ next_file([file |-> file_path, out_dir |-> out, md |-> md,
                                        success |-> TRUE])
                     ELSE /\ disk' = disk
                          /\ next_file(no_output(file_path, out))
    /\ UNCHANGED <<jobVars, lockVars, recursive, output_dir, all_files, planVars, inputVars, pc,
                   splitVars, loopVars, futVars, result, histVars>>

\* loop body for a .docx file: convert_docx(file_path, current_output, ...)
convert_docx_file ==
    /\ batch_pc = "loop"
    /\ file_path.name.ext = ".docx"
    /\ LET out == converter_output_dir(file_path, current_output(file_path))
           md == md_file(out, file_path.name.stem)
       IN IF file_path \notin DOMAIN disk
            THEN /\ disk' = disk
                 /\ next_file(no_output(file_path, out))
            ELSE \E success \in BOOLEAN :
                   IF success
                     THEN /\ disk' = write(disk, md, MarkdownOf(disk[file_path]))
                          /\ next_file([file |-> file_path, out_dir |-> out, md |-> md,
                                        success |-> TRUE])
                     ELSE /\ disk' = disk
                          /\ next_file(no_output(file_path, out))
    /\ UNCHANGED <<jobVars, lockVars, recursive, output_dir, all_files, planVars, inputVars, pc,
                   splitVars, loopVars, futVars, result, histVars>>

\* loop body for a .doc file: convert_docx with the DOC -> DOCX step.
\* _convert_doc_to_docx writes doc_path.with_suffix(".docx") or raises (no Word);
\* the conversion then reads that file; finally: temp_docx.unlink()
convert_doc_file ==
    /\ batch_pc = "loop"
    /\ file_path.name.ext = ".doc"
    /\ LET out == converter_output_dir(file_path, current_output(file_path))
           md == md_file(out, file_path.name.stem)
           temp_docx == with_suffix(file_path, ".docx")
       IN IF file_path \notin DOMAIN disk
            THEN /\ disk' = disk
                 /\ next_file(no_output(file_path, out))
            ELSE \E outcome \in {"doc2docx_raises", "success", "failure"} :
                   LET with_temp == write(disk, temp_docx, DocxOf(disk[file_path]))
                   IN CASE outcome = "doc2docx_raises" ->
                             /\ disk' = disk
                             /\ next_file(no_output(file_path, out))
                        [] outcome = "success" ->
                             /\ disk' = unlink(write(with_temp, md, MarkdownOf(with_temp[temp_docx])),
                                               temp_docx)
                             /\ next_file([file |-> file_path, out_dir |-> out, md |-> md,
                                           success |-> TRUE])
                        [] outcome = "failure" ->
                             /\ disk' = unlink(with_temp, temp_docx)
                             /\ next_file(no_output(file_path, out))
    /\ UNCHANGED <<jobVars, lockVars, recursive, output_dir, all_files, planVars, inputVars, pc,
                   splitVars, loopVars, futVars, result, histVars>>

\* a batch run over an input tree: the request's recursive and output_dir, and the
\* source files under input_dir
InitBatch ==
    /\ JobInit
    /\ pdf_exists = FALSE
    /\ file_size = 0
    /\ total_pages = 0
    /\ save_images = FALSE
    /\ PdfIdle
    /\ LockIdle
    /\ recursive \in BOOLEAN
    /\ output_dir \in {NoDir, <<"out">>}
    /\ \E tree \in Trees : disk = [path \in tree |-> Source(path)]
    /\ all_files = <<>>
    /\ file_idx = 0
    /\ results = <<>>
    /\ batch_pc = "collect"

NextBatch ==
    \/ collect_files
    \/ convert_pdf_file
    \/ convert_docx_file
    \/ convert_doc_file

SpecBatch == InitBatch /\ [][NextBatch]_vars

\* ================================================================== _lock
\* A thread stands at a call (at) in one of the phases "call" (about to make it), "held"
\* (inside its `with _lock:` block) and "converting" (inside convert_pdf / convert_docx).
\* The handler thread serves the job-start requests one after the other; status and
\* download serve the polls.
ConvertAt == {"u_convert", "b_convert"}

\* the calls whose code is a `with _lock:` block: the guard of the job-start handlers,
\* _reset_state, _set, _log, the result_path block, get_status, download_result
with_lock(at) == at \notin ConvertAt \cup {"Thread.start", "none"}

\* what the block at `at` does to _state
body(at, rec, s) ==
    CASE at = "_reset_state" -> reset_state(s)
      [] at = "set_running" -> set(s, [running |-> TRUE])
      [] at = "u_set" -> set(s, [status |-> "converting", progress |-> Progress(0, 1)])
      [] at = "u_log_start" -> log(s, "start")
      [] at = "u_result" -> [s EXCEPT !.result_path = md_path(1)]
      [] at = "u_log_success" -> log(s, "success")
      [] at = "u_log_failed" -> log(s, "failed")
      [] at \in {"u_set_done", "b_set_none", "b_set_done"} ->
             set(s, [status |-> "done", progress |-> Progress(100, 1)])
      [] at \in {"u_log_exception", "r_log_exception"} -> log(s, "exception")
      [] at \in {"u_finally", "r_finally"} -> set(s, [running |-> FALSE])
      [] at = "b_log_none" -> log(s, "no files")
      [] at = "b_log_total" -> log(s, "found")
      [] at = "b_set_file" ->
             set(s, [status |-> "converting", progress |-> Progress(rec.n * 100, rec.total)])
      [] at = "b_log_file" -> log(s, "file")
      [] at = "b_log_summary" -> log(s, "summary")
      [] OTHER -> s

\* the call that follows the block at `at`
after(at, rec, s) ==
    CASE at = "guard" -> IF s.running THEN "guard" ELSE "_reset_state"
      [] at = "_reset_state" -> "set_running"
      [] at = "set_running" -> "Thread.start"
      [] at = "u_set" -> "u_log_start"
      [] at = "u_log_start" -> "u_convert"
      [] at = "u_result" -> "u_log_success"
      [] at \in {"u_log_success", "u_log_failed"} -> "u_set_done"
      [] at \in {"u_set_done", "u_log_exception"} -> "u_finally"
      [] at = "b_log_none" -> "b_set_none"
      [] at = "b_log_total" -> "b_set_file"
      [] at = "b_set_file" -> "b_convert"
      [] at = "b_log_file" -> IF rec.n + 1 < rec.total THEN "b_set_file" ELSE "b_set_done"
      [] at = "b_set_done" -> "b_log_summary"
      [] at \in {"b_set_none", "b_log_summary", "r_log_exception"} -> "r_finally"
      [] at \in {"u_finally", "r_finally"} -> "none"
      [] OTHER -> at

\* with _lock:  (entering the block)
lock_acquire(t) ==
    /\ threads[t].phase = "call"
    /\ with_lock(threads[t].at)
    /\ lock = "free"
    /\ lock' = t
    /\ threads' = [threads EXCEPT ![t].phase = "held"]
    /\ UNCHANGED <<jobVars, batchVars, planVars, inputVars, pc, splitVars, loopVars, futVars,
                   result, histVars>>

\* the body of the block and the release at its end
lock_release(t) ==
    /\ threads[t].phase = "held"
    /\ lock = t
    /\ lock' = "free"
    /\ state' = body(threads[t].at, threads[t], state)
    /\ snapshot' = IF threads[t].at = "get_status"
                     THEN [response |-> state, active |-> { h \in Requests : Active(h) }]
                     ELSE snapshot
    /\ LET next == after(threads[t].at, threads[t], state)
       IN threads' = [threads EXCEPT ![t] =
              [@ EXCEPT !.at = next,
                        !.phase = IF next = "none" THEN "none" ELSE "call",
                        !.n = IF threads[t].at = "b_log_file" THEN @ + 1 ELSE @]]
    /\ UNCHANGED <<req, workers, last_md, batchVars, planVars, inputVars, pc, splitVars,
                   loopVars, futVars, result, histVars>>

\* threading.Thread(target=_convert_uploaded or _run_convert, ...).start(), and the
\* handler's return; total is the number of files the batch finds
thread_start ==
    /\ threads["handler"].phase = "call"
    /\ threads["handler"].at = "Thread.start"
    /\ \E kind \in {"upload", "batch"}, total \in 0..MaxFiles :
          threads' = [threads EXCEPT
              !["handler"].at = "guard",
              !["worker"] = [at |-> IF kind = "upload" THEN "u_set"
                                   ELSE IF total = 0 THEN "b_log_none" ELSE "b_log_total",
                             phase |-> "call", ticks |-> 0,
                             total |-> IF kind = "upload" THEN 1 ELSE total, n |-> 0]]
    /\ UNCHANGED <<jobVars, lock, batchVars, planVars, inputVars, pc, splitVars, loopVars,
                   futVars, result, histVars>>

\* convert_call with the conversion made inside a `with _lock:` block
convert_call_inside_lock(t) ==
    /\ threads[t].phase = "call"
    /\ threads[t].at \in ConvertAt
    /\ lock = "free"
    /\ lock' = t
    /\ threads' = [threads EXCEPT ![t].phase = "converting", ![t].ticks = 0]
    /\ UNCHANGED <<jobVars, batchVars, planVars, inputVars, pc, splitVars, loopVars, futVars,
                   result, histVars>>

\* result = convert_pdf(...) / convert_docx(...): the call is made
convert_call(t) ==
    /\ threads[t].phase = "call"
    /\ threads[t].at \in ConvertAt
    /\ threads' = [threads EXCEPT ![t].phase = "converting", ![t].ticks = 0]
    /\ UNCHANGED <<jobVars, lock, batchVars, planVars, inputVars, pc, splitVars, loopVars,
                   futVars, result, histVars>>

\* time passes inside the converter
convert_tick(t) ==
    /\ threads[t].phase = "converting"
    /\ threads[t].ticks < MaxConvertTicks
    /\ threads' = [threads EXCEPT ![t].ticks = @ + 1]
    /\ UNCHANGED <<jobVars, lock, batchVars, planVars, inputVars, pc, splitVars, loopVars,
                   futVars, result, histVars>>

\* the converter returns a result, with or without success, or an exception leaves it
convert_return(t) ==
    /\ threads[t].phase = "converting"
    /\ \E outcome \in {"success", "failure", "raised"} :
          threads' = [threads EXCEPT
              ![t].phase = "call",
              ![t].at = IF threads[t].at = "u_convert"
                          THEN CASE outcome = "success" -> "u_result"
                                 [] outcome = "failure" -> "u_log_failed"
                                 [] outcome = "raised" -> "u_log_exception"
                          ELSE IF outcome = "raised" THEN "r_log_exception" ELSE "b_log_file"]
    /\ UNCHANGED <<jobVars, lock, batchVars, planVars, inputVars, pc, splitVars, loopVars,
                   futVars, result, histVars>>

InitLock ==
    /\ JobInit
    /\ BatchIdle
    /\ pdf_exists = FALSE
    /\ file_size = 0
    /\ total_pages = 0
    /\ save_images = FALSE
    /\ PdfIdle
    /\ lock = "free"
    /\ threads = [t \in Threads |->
            [at |-> CASE t = "handler" -> "guard"
                      [] t = "status" -> "get_status"
                      [] t = "download" -> "download_result"
                      [] t = "worker" -> "none",
             phase |-> IF t = "worker" THEN "none" ELSE "call",
             ticks |-> 0, total |-> 0, n |-> 0]]

NextLock ==
    \/ thread_start
    \/ \E t \in Threads :
          \/ lock_acquire(t)
          \/ lock_release(t)
          \/ convert_call(t)
          \/ convert_tick(t)
          \/ convert_return(t)

SpecLock == InitLock /\ [][NextLock]_vars

\* ================================================================== the split plan functions
\* file sizes around the two thresholds, and the empty file
PlanSizes ==
    {0, SPLIT_THRESHOLD_2 - 1, SPLIT_THRESHOLD_2, SPLIT_THRESHOLD_2 + 1,
     SPLIT_THRESHOLD_4 - 1, SPLIT_THRESHOLD_4, SPLIT_THRESHOLD_4 + 1}

\* the values of num_splits _split_pdf is called with (convert_pdf calls it when
\* _get_split_count gave more than 1)
PlanSplits == {2, 4}

\* _get_split_count(file_size)
get_split_count_call ==
    /\ Len(count_calls) < MaxCalls
    /\ \E size \in PlanSizes :
          count_calls' = Append(count_calls, [file_size |-> size, ret |-> get_split_count(size)])
    /\ UNCHANGED <<jobVars, lockVars, batchVars, split_call, inputVars, pc, splitVars, loopVars, futVars, result, histVars>>

\* _split_pdf(pdf_path, num_splits) on a readable document of total_pages pages
split_pdf_call ==
    /\ split_call = <<>>
    /\ \E pages \in 0..MaxSplitPages, n \in PlanSplits :
          split_call' = <<[total_pages |-> pages, num_splits |-> n,
                           split_paths |-> split_ranges(pages, n)]>>
    /\ UNCHANGED <<jobVars, lockVars, batchVars, count_calls, inputVars, pc, splitVars, loopVars, futVars, result, histVars>>

NextPlan ==
    \/ get_split_count_call
    \/ split_pdf_call

SpecPlan == Init /\ [][NextPlan]_vars

\* ================================================================== claims, SpecPdf
InExecutor == pc \in {"wait_result", "shutdown_wait"}
SplitDone == pc = "done" /\ split_status = "ok"
Succeeded == { p \in DOMAIN rendered : rendered[p].ok }

\* C2: once the deadline of a part's renderer invocation has passed, _convert_single_pdf
\* has given control back to its caller (it does not wait for the invocation to end).
C2_CallerBackAtDeadline == InExecutor => elapsed <= PartTimeoutTicks

\* C3: in Direct mode the renderer invocation is bounded by the deadline: the
\* conversion is never still waiting for the renderer after the deadline has passed.
C3_DirectBounded == pc = "single_wait" => elapsed <= PartTimeoutTicks

\* C4: when _split_pdf raised after creating its scratch directory, the directory
\* does not exist once _convert_pdf_split has returned.
C4_ScratchRemovedOnSplitFailure ==
    (pc = "done" /\ split_status = "raised_after_mkdtemp") => ~scratch_exists

\* C5: when _split_pdf returned, the scratch directory does not exist once
\* _convert_pdf_split has returned, whatever the parts' outcomes.
C5_ScratchRemovedAfterSplit == SplitDone => ~scratch_exists

C5_Witness_AllPartsFailed ==
    SplitDone /\ Len(split_paths) >= 2 /\ fail_count = Len(split_paths) /\ ~scratch_exists

ExpectedPart(p) ==
    LET o == rendered[p]
    IN [j \in 1..Len(o.md) |->
          IF save_images /\ o.md[j].kind = "ref" /\ o.md[j].name \in DOMAIN o.images
            THEN PathRef(rel_path(new_img_name(p, o.md[j].name)))
            ELSE o.md[j]]

RECURSIVE ExpectedFrom(_, _)
ExpectedFrom(p, first) ==
    IF p > Len(split_paths) THEN <<>>
    ELSE IF p \in Succeeded
      THEN (IF first THEN <<>> ELSE <<Delimiter>>) \o ExpectedPart(p) \o ExpectedFrom(p + 1, FALSE)
      ELSE ExpectedFrom(p + 1, first)

\* C9: the merged Markdown is the Markdown of the successful parts, each once, in
\* ascending part order, with the delimiter between consecutive ones and nothing of
\* the failed parts.
C9_MergedMarkdown ==
    (SplitDone /\ result.success) => result.markdown = ExpectedFrom(1, TRUE)

C9_Witness_ThreeOfFour ==
    /\ SplitDone
    /\ result.success
    /\ Len(split_paths) = 4
    /\ Succeeded = {1, 3, 4}
    /\ Len(SelectSeq(result.markdown, LAMBDA t : t.kind = "hr")) = 2

\* C10: every image of every successful part is in the merged image map under the
\* part-prefixed key, for every setting of save_images.
C10_EveryImageSurvives ==
    (SplitDone /\ result.success) =>
        \A p \in Succeeded : \A n \in DOMAIN rendered[p].images :
            /\ new_img_name(p, n) \in DOMAIN result.images
            /\ result.images[new_img_name(p, n)] = rendered[p].images[n]

\* C15: every ConversionResult returned by convert_pdf (missing file, direct mode,
\* split mode, every exit path) has an error if and only if success is false, and when
\* success is false its markdown and its images are empty.
C15_ResultShape ==
    pc = "done" =>
        /\ (result.error # "None") <=> ~result.success
        /\ ~result.success => (result.markdown = <<>> /\ DOMAIN result.images = {})

C15_Witness_FailedSplitResult ==
    /\ pc = "done"
    /\ ~result.success
    /\ result.error = "all_parts_failed"
    /\ Len(split_paths) = 2
    /\ rendered[1].error = "renderer_error"
    /\ rendered[2].error = "deadline_timeout"

\* C24: a part is reported as timed out only when the deadline elapsed before its
\* renderer invocation ended: a failure the invocation raised before the deadline,
\* a timeout-typed one included, is not reported as a deadline Timeout.
C24_TimeoutOnlyAtDeadline ==
    (pc = "part_failed" /\ exc = "deadline_timeout") => elapsed >= PartTimeoutTicks

\* C26: outside _convert_single_pdf no renderer invocation of the split pipeline is
\* executing: when the loop moves on to part i+1 the invocation started for part i
\* has ended, also when part i was reported as timed out; so at most one invocation
\* executes at any time.
C26_OneInvocationAtATime ==
    (split_status = "ok" /\ ~InExecutor) => fut # "running"

C26_Witness_NextPartAfterTimeout ==
    /\ pc = "wait_result"
    /\ fut = "running"
    /\ part_num = 2
    /\ 1 \in DOMAIN rendered
    /\ rendered[1].error = "deadline_timeout"
    /\ attempted = <<1, 2>>

DirectPath == pc \in {"single", "single_wait"} \/ (pc = "done" /\ pdf_exists /\ split_status = "none")
SplitPath == pc \in {"split", "loop", "wait_result", "shutdown_wait", "part_ok", "part_failed",
                     "except", "finally"} \/ (pc = "done" /\ split_status # "none")

\* C27: convert_pdf takes the Direct path exactly when the file size is below
\* 5*1024*1024 bytes and the Split path otherwise; on the Direct path _split_pdf is
\* never called and no scratch directory is created.
C27_DirectBelowThreshold ==
    /\ DirectPath => file_size < 5 * 1024 * 1024
    /\ SplitPath => file_size >= 5 * 1024 * 1024
    /\ (pc = "done" /\ pdf_exists) => (DirectPath \/ SplitPath)
    /\ DirectPath => (split_status = "none" /\ ~scratch_exists /\ tmp_dir = "None"
                        /\ split_paths = <<>>)

C27_Witness_DirectJustBelow ==
    /\ pc = "done"
    /\ DirectPath
    /\ file_size = 5 * 1024 * 1024 - 1
    /\ result.success

\* ================================================================== claims, Spec
\* C1: at most one conversion worker is active at any time, under every interleaving
\* of job-start requests and worker steps.
C1_AtMostOneWorker == Cardinality({ h \in Requests : Active(h) }) <= 1

\* C6: a job-start request whose guard observes running = true ends with 409 in that
\* step, and the step leaves _state (logs, progress, status, running, result_path) and
\* the set of workers as they were; a request answered 409 never has a worker.
C6_RejectionChangesNothing ==
    /\ [][\A h \in Requests :
            (req[h].pc = "new" /\ req'[h].pc # "new" /\ state.running)
                => /\ req'[h].pc = "done"
                   /\ req'[h].response = 409
                   /\ state' = state
                   /\ workers' = workers]_vars
    /\ [](\A h \in Requests : req[h].response = 409 => workers[h].pc = "unborn")

C6_Witness_RejectedWhileJobLogs ==
    \E h, g \in Requests :
        /\ req[h].response = 409
        /\ Active(g)
        /\ state.running
        /\ state.logs # <<>>

\* ================================================================== claims, SpecPlan
PageCount(r) == r.end - r.start
Pages(r) == r.start .. (r.end - 1)

\* C11: every call _get_split_count(s) returned 1 when s < 5*1024*1024, 2 when
\* 5*1024*1024 <= s < 10*1024*1024 and 4 when s >= 10*1024*1024; so it returned one of
\* {1, 2, 4}, and of two calls the one with the larger size did not return less.
C11_SplitCountBySize ==
    /\ \A j \in 1..Len(count_calls) :
          LET s == count_calls[j].file_size
              r == count_calls[j].ret
          IN /\ s < 5 * 1024 * 1024 => r = 1
             /\ (5 * 1024 * 1024 <= s /\ s < 10 * 1024 * 1024) => r = 2
             /\ s >= 10 * 1024 * 1024 => r = 4
             /\ r \in {1, 2, 4}
    /\ \A j, k \in 1..Len(count_calls) :
          count_calls[j].file_size <= count_calls[k].file_size
              => count_calls[j].ret <= count_calls[k].ret

C11_Witness_AtBothThresholds ==
    /\ Len(count_calls) = 2
    /\ count_calls[1] = [file_size |-> 10 * 1024 * 1024, ret |-> 4]
    /\ count_calls[2] = [file_size |-> 5 * 1024 * 1024, ret |-> 2]

\* C12: the page ranges of the parts written by _split_pdf, for any page count and
\* num_splits 2 or 4, are non-empty, start at 0, each start where the one before
\* ended, are pairwise disjoint, and together cover exactly [0, total_pages).
C12_RangesPartitionPages ==
    \A c \in 1..Len(split_call) :
        LET parts == split_call[c].split_paths
            total == split_call[c].total_pages
        IN /\ \A j \in 1..Len(parts) : parts[j].start < parts[j].end
           /\ parts # <<>> => parts[1].start = 0
           /\ \A j \in 2..Len(parts) : parts[j].start = parts[j - 1].end
           /\ \A j, k \in 1..Len(parts) : j # k => Pages(parts[j]) \cap Pages(parts[k]) = {}
           /\ UNION { Pages(parts[j]) : j \in 1..Len(parts) } = 0 .. (total - 1)

C12_Witness_UnevenSplit ==
    /\ split_call # <<>>
    /\ split_call[1].total_pages = 7
    /\ split_call[1].num_splits = 4
    /\ Len(split_call[1].split_paths) = 4
    /\ PageCount(split_call[1].split_paths[4]) = 1

\* C13: the last part absorbs the remainder of total_pages / num_splits: all parts
\* before the last have the same page count and the last part has at least as many
\* pages as each of them.
C13_LastPartAbsorbsRemainder ==
    \A c \in 1..Len(split_call) :
        LET parts == split_call[c].split_paths
            last == Len(parts)
        IN \A j, k \in 1..(last - 1) :
              /\ PageCount(parts[j]) = PageCount(parts[k])
              /\ PageCount(parts[last]) >= PageCount(parts[j])

\* C14: _split_pdf writes exactly num_splits parts whenever the document has at least
\* num_splits pages; it writes fewer only when num_splits exceeds the page count.
C14_ExactlyNumSplitsParts ==
    \A c \in 1..Len(split_call) :
        /\ split_call[c].total_pages >= split_call[c].num_splits
              => Len(split_call[c].split_paths) = split_call[c].num_splits
        /\ Len(split_call[c].split_paths) < split_call[c].num_splits
              => split_call[c].num_splits > split_call[c].total_pages

\* C21: a job-start request with an input error (no file field, unsupported
\* extension, empty or missing input directory, unknown mode) is answered with an
\* error in the step that finds it, and that step leaves _state as it was (no reset,
\* running not set) and starts no worker; a request so answered never has a worker.
C21_InputErrorChangesNothing ==
    /\ [][\A h \in Requests :
            (req[h].pc = "validate" /\ req'[h].pc = "done")
                => /\ req'[h].response = 400
                   /\ state' = state
                   /\ workers' = workers]_vars
    /\ [](\A h \in Requests : req[h].response = 400 => workers[h].pc = "unborn")

C21_Witness_InputErrorAfterJob ==
    \E h, g \in Requests :
        /\ req[h].response = 400
        /\ req[h].kind = "batch"
        /\ workers[g].pc = "done"
        /\ ~state.running
        /\ state.logs # <<>>
        /\ state.status = "done"

\* C23: whenever result_path is present it is the path of the Markdown file written
\* by the most recent successful conversion; and a job whose conversions wrote no
\* Markdown file ends with result_path absent.
C23_ResultPathIsLatest ==
    [][/\ state'.result_path # "None" => state'.result_path = last_md'
       /\ \A h \in Requests :
             (Active(h) /\ workers'[h].pc = "done" /\ workers[h].written = 0)
                 => state'.result_path = "None"]_vars

\* C28: whenever a conversion worker is active (started, and not yet past its final
\* running=false), _state["running"] is true, under every interleaving of job-start
\* requests and worker steps.
C28_RunningWhileWorkerActive ==
    \A h \in Requests : Active(h) => state.running

\* ================================================================== claims, Spec: batch jobs
Last(seq) == seq[Len(seq)]
Converting(h) == workers[h].pc = "b_convert"

\* C16: when a batch over n enumerated files has left its loop, every enumerated file
\* has been converted exactly once, in enumeration order, whatever happened to the
\* files before it, and success_count + fail_count = n.
C16_EveryFileConvertedOnce ==
    \A h \in Requests :
        (workers[h].pc = "b_finally" /\ workers[h].total > 0)
            => /\ workers[h].converted = [j \in 1..workers[h].total |-> j]
               /\ workers[h].success_count + workers[h].fail_count = workers[h].total

\* C17: when an accepted batch job ends (its worker sets running to false), the last
\* log line is the summary line, for every file set and every outcome of the files.
C17_SummaryIsLastLine ==
    [][\A h \in Requests :
          (workers[h].pc = "b_finally" /\ workers'[h].pc = "done")
              => /\ state'.logs # <<>>
                 /\ Last(state'.logs) = "summary"]_vars

\* C18: while the i-th of total files of a batch job is being converted, progress is
\* ((i - 1) / total) * 100, the value set right before the conversion started; so
\* progress is within [0, 100] and no step taken during the job decreases it.
C18_ProgressPerFile ==
    [][/\ \A h \in Requests :
            Converting(h) =>
                state.progress.num * workers[h].total
                    = (workers[h].idx - 1) * 100 * state.progress.den
       /\ (\E h \in Requests : workers[h].total > 0 /\ Active(h))
            => /\ 0 <= state.progress.num
               /\ state.progress.num <= 100 * state.progress.den
               /\ state'.progress.num * state.progress.den
                      >= state.progress.num * state'.progress.den]_vars

\* ================================================================== claims, SpecStatus
IsPrefix(s, t) == Len(s) <= Len(t) /\ SubSeq(t, 1, Len(s)) = s

\* C19: of two status snapshots taken one after the other while the worker of one job
\* is active (started, and not yet past its running=false), the log of the earlier is a
\* prefix of the log of the later; by transitivity the same holds of any two snapshots
\* taken during the job.
C19_LogAppendOnly ==
    [][\A h \in Requests :
          (h \in snapshot.active /\ h \in snapshot'.active)
              => IsPrefix(snapshot.response.logs, snapshot'.response.logs)]_vars

\* ================================================================== claims, SpecFair
\* C20: every accepted job ends: the worker started for it reaches its end, whether
\* its conversion returned or raised (the error is logged by the worker, which goes on
\* to its finally clause), and the step that ends it leaves running = false.
C20_JobEndsNotRunning ==
    /\ \A h \in Requests : Active(h) ~> (workers[h].pc = "done")
    /\ [][\A h \in Requests :
            (Active(h) /\ workers'[h].pc = "done") => ~state'.running]_vars
    /\ [][\A h \in Requests :
            (workers[h].pc \in {"u_convert", "b_convert"}
                 /\ workers'[h].pc \in {"u_finally", "b_finally"})
              => (state'.logs # <<>> /\ Last(state'.logs) = "exception")]_vars

C20_Witness_EndedAfterException ==
    \E h \in Requests :
        /\ workers[h].pc = "done"
        /\ workers[h].kind = "batch"
        /\ state.logs # <<>>
        /\ Last(state.logs) = "exception"
        /\ ~state.running

\* ------------------------------------------------------------------ C22
\* C22: for every file converted by a batch, with base = output_dir if set and
\* input_dir otherwise, the output directory is base joined with the file's
\* directory relative to input_dir when recursive, and base itself when not;
\* the Markdown file is written there, and converter.convert_batch computes the
\* same directory for the file.
ExpectedOutputDir(path) ==
    LET base == IF output_dir # NoDir THEN output_dir ELSE input_dir
    IN IF recursive THEN base \o relative_to(parent(path), input_dir) ELSE base

C22_BatchOutputDirectory ==
    \A k \in 1..Len(results) :
        results[k].success =>
            /\ results[k].out_dir = ExpectedOutputDir(results[k].file)
            /\ results[k].md.dir = ExpectedOutputDir(results[k].file)
            /\ results[k].md \in DOMAIN disk
            /\ convert_batch_output_dir(results[k].file) = ExpectedOutputDir(results[k].file)

C22_Witness_MirroredSubdirectory ==
    /\ recursive
    /\ output_dir = <<"out">>
    /\ \E k \in 1..Len(results) :
          /\ results[k].success
          /\ parent(results[k].file) = <<"in", "sub">>
          /\ results[k].out_dir = <<"out", "sub">>

\* ------------------------------------------------------------------ C29
\* C29: after a batch has ended, every enumerated source file still exists with
\* its original content.
C29_InputsUntouched ==
    batch_pc = "done" =>
        \A k \in 1..Len(all_files) :
            /\ all_files[k] \in DOMAIN disk
            /\ disk[all_files[k]] = Source(all_files[k])

\* ------------------------------------------------------------------ C30
\* C30: distinct source files of one batch that convert successfully produce
\* distinct Markdown files, and after the batch there is one Markdown file per
\* successful source file.
MarkdownFiles == { path \in DOMAIN disk : path.name.ext = ".md" }
Successful == { k \in 1..Len(results) : results[k].success }

C30_DistinctOutputs ==
    /\ \A j, k \in Successful : j # k => results[j].md # results[k].md
    /\ batch_pc = "done" => Cardinality(MarkdownFiles) = Cardinality(Successful)

\* ================================================================== claims, SpecLock
\* ------------------------------------------------------------------ C25
\* C25: _lock is never held by a thread that is inside a conversion; whoever holds
\* it is inside one of the `with _lock:` blocks over _state, and the holder's next
\* step is the release, so no conversion time passes under the lock.
C25_LockNotHeldAcrossConversion ==
    /\ [](\A t \in Threads :
            /\ threads[t].phase = "converting" => lock # t
            /\ lock = t => threads[t].phase = "held" /\ with_lock(threads[t].at))
    /\ [][\A t \in Threads :
            /\ (lock = t /\ threads'[t] # threads[t]) => lock' = "free"
            /\ threads'[t].ticks > threads[t].ticks => lock # t]_vars

\* a status poll made and answered while the worker is inside a conversion that has
\* run for its whole modelled time
C25_Witness_PollDuringConversion ==
    /\ threads["worker"].phase = "converting"
    /\ threads["worker"].ticks = MaxConvertTicks
    /\ lock = "status"
    /\ snapshot.response.running
    /\ snapshot.response.status = "converting"

\* ================================================================== claims, Spec: the end of a job
\* ------------------------------------------------------------------ C31
\* C31: when a worker ends its job (the step of its final _set(running=False)), the
\* status text is a terminal one, "done" or "error", and not "converting"; stated for
\* a job that runs alone, no other request having been made.
C31_TerminalStatusAtJobEnd ==
    [][\A h \in Requests :
          (/\ Active(h)
           /\ workers'[h].pc = "done"
           /\ \A g \in Requests \ {h} : req[g].pc = "new")
              => /\ ~state'.running
                 /\ state'.status \in {"done", "error"}]_vars

====
